---- MODULE Spec2Model ----
(***************************************************************************)
(* GitHub Truth Engine (gte): the roast command, the repository analyzer,  *)
(* the claim extractor, the prompt composer and the offline scoring        *)
(* heuristic.                                                              *)
(*                                                                         *)
(* Python values are modelled as follows.  A str is a sequence of          *)
(* one-character strings.  An Optional value is None (the empty tuple) or  *)
(* Some(x) (the one-element tuple holding x).  A list is a sequence, a     *)
(* dict with fixed keys a record.                                          *)
(***************************************************************************)
EXTENDS Integers, Sequences, FiniteSets, TLC

VARIABLES
    pc,          \* position of the run inside cli.roast / RepoAnalyzer.analyze
    repo_url,    \* the REPO_URL argument
    model,       \* --model
    api_key,     \* --api-key
    quick,       \* --quick
    ident,       \* (self.owner, self.repo_name) once parsed
    platform,    \* what the hosting platform holds for the repository
    data,        \* the report built by analyze
    roaster,     \* the AIRoaster instance (backend, client)
    roast_text,  \* the result of quick_roast / roast
    err,         \* the exception that ended the run, if any
    exit_code,   \* the status the process exits with
    calls,       \* the queries sent to the platform and the backend, in order
    last,        \* the outcome the environment gave the latest step
    backend_env, \* the text-generation backends as the run finds them
    prompt       \* the prompt composed by build_analysis_prompt

vars == <<pc, repo_url, model, api_key, quick, ident, platform, data,
          roaster, roast_text, err, exit_code, calls, last, backend_env,
          prompt>>

----------------------------------------------------------------------------
(* Optional values *)

None == <<>>
Some(x) == <<x>>

----------------------------------------------------------------------------
(* Characters and the character classes of Python's re module *)

UpperCase == <<"A","B","C","D","E","F","G","H","I","J","K","L","M",
               "N","O","P","Q","R","S","T","U","V","W","X","Y","Z">>
LowerCase == <<"a","b","c","d","e","f","g","h","i","j","k","l","m",
               "n","o","p","q","r","s","t","u","v","w","x","y","z">>
DigitChars == {"0","1","2","3","4","5","6","7","8","9"}
SpaceChars == {" ", "\n", "\t"}

Range(s) == {s[i] : i \in DOMAIN s}

\* str.lower() on one character
LowerChar(c) ==
    IF \E i \in DOMAIN UpperCase : UpperCase[i] = c
    THEN LowerCase[CHOOSE i \in DOMAIN UpperCase : UpperCase[i] = c]
    ELSE c

\* str.lower()
Lower(s) == [i \in DOMAIN s |-> LowerChar(s[i])]

\* membership in the class \s, \d or \w
InClass(cls, c) ==
    CASE cls = "s" -> c \in SpaceChars
      [] cls = "d" -> c \in DigitChars
      [] cls = "w" -> c \in Range(LowerCase) \cup Range(UpperCase)
                            \cup DigitChars \cup {"_"}

----------------------------------------------------------------------------
(* Regular expressions: a pattern is a sequence of elements, each a literal *)
(* character, an optional literal character (c?) or a class repeated one or *)
(* more times (\s+, \d+, \w+).                                              *)

Lit(w) == [i \in DOMAIN w |-> [k |-> "lit", c |-> w[i]]]
Opt(ch) == [k |-> "opt", c |-> ch]
Plus(cls) == [k |-> "plus", c |-> cls]

\* the end of the longest run of class-cls characters that starts at i
RECURSIVE RunEnd(_, _, _)
RunEnd(cls, text, i) ==
    IF i <= Len(text) /\ InClass(cls, text[i])
    THEN RunEnd(cls, text, i + 1)
    ELSE i

\* Match pattern elements pat[k..] at position i of text, greedy with
\* backtracking: the position after the match, or 0 when there is none.
RECURSIVE MatchAt(_, _, _, _)
RECURSIVE MatchPlus(_, _, _, _, _)
MatchAt(pat, k, text, i) ==
    IF k > Len(pat) THEN i
    ELSE LET e == pat[k] IN
         CASE e.k = "lit" ->
                IF i <= Len(text) /\ text[i] = e.c
                THEN MatchAt(pat, k + 1, text, i + 1)
                ELSE 0
           [] e.k = "opt" ->
                LET taken == IF i <= Len(text) /\ text[i] = e.c
                            THEN MatchAt(pat, k + 1, text, i + 1)
                            ELSE 0
                IN  IF taken # 0 THEN taken ELSE MatchAt(pat, k + 1, text, i)
           [] e.k = "plus" ->
                MatchPlus(pat, k, text, i, RunEnd(e.c, text, i))

\* the class run taken up to j (exclusive), longest first and at least one
MatchPlus(pat, k, text, i, j) ==
    IF j <= i THEN 0
    ELSE LET r == MatchAt(pat, k + 1, text, j)
         IN  IF r # 0 THEN r ELSE MatchPlus(pat, k, text, i, j - 1)

\* re.findall(pattern, text) for a pattern without groups: the matched
\* substrings, leftmost first, non-overlapping
RECURSIVE FindAllFrom(_, _, _)
FindAllFrom(pat, text, pos) ==
    IF pos > Len(text) THEN <<>>
    ELSE LET r == MatchAt(pat, 1, text, pos)
         IN  IF r = 0 THEN FindAllFrom(pat, text, pos + 1)
             ELSE IF r = pos THEN <<(<<>>)>> \o FindAllFrom(pat, text, pos + 1)
             ELSE <<SubSeq(text, pos, r - 1)>> \o FindAllFrom(pat, text, r)

FindAll(pat, text) == FindAllFrom(pat, text, 1)

----------------------------------------------------------------------------
(* RepoAnalyzer._extract_claims *)

\* the hype patterns, categories and patterns in declaration order
patterns == <<
  [category |-> "performance", pattern_list |-> <<
     \* blazingly?\s+fast
     Lit(<<"b","l","a","z","i","n","g","l">>) \o <<Opt("y")>> \o <<Plus("s")>> \o Lit(<<"f","a","s","t">>),
     \* \d+x\s+faster
     <<Plus("d")>> \o Lit(<<"x">>) \o <<Plus("s")>> \o Lit(<<"f","a","s","t","e","r">>),
     \* lightning\s+fast
     Lit(<<"l","i","g","h","t","n","i","n","g">>) \o <<Plus("s")>> \o Lit(<<"f","a","s","t">>),
     \* extremely\s+fast
     Lit(<<"e","x","t","r","e","m","e","l","y">>) \o <<Plus("s")>> \o Lit(<<"f","a","s","t">>),
     \* super\s+fast
     Lit(<<"s","u","p","e","r">>) \o <<Plus("s")>> \o Lit(<<"f","a","s","t">>),
     \* optimized
     Lit(<<"o","p","t","i","m","i","z","e","d">>),
     \* high\s+performance
     Lit(<<"h","i","g","h">>) \o <<Plus("s")>> \o Lit(<<"p","e","r","f","o","r","m","a","n","c","e">>),
     \* performant
     Lit(<<"p","e","r","f","o","r","m","a","n","t">>),
     \* blazing
     Lit(<<"b","l","a","z","i","n","g">>)
  >>],
  [category |-> "simplicity", pattern_list |-> <<
     \* simple
     Lit(<<"s","i","m","p","l","e">>),
     \* easy
     Lit(<<"e","a","s","y">>),
     \* straightforward
     Lit(<<"s","t","r","a","i","g","h","t","f","o","r","w","a","r","d">>),
     \* just\s+\w+
     Lit(<<"j","u","s","t">>) \o <<Plus("s")>> \o <<Plus("w")>>,
     \* zero\s+config
     Lit(<<"z","e","r","o">>) \o <<Plus("s")>> \o Lit(<<"c","o","n","f","i","g">>),
     \* no\s+setup
     Lit(<<"n","o">>) \o <<Plus("s")>> \o Lit(<<"s","e","t","u","p">>),
     \* quick\s+start
     Lit(<<"q","u","i","c","k">>) \o <<Plus("s")>> \o Lit(<<"s","t","a","r","t">>),
     \* minimal\s+setup
     Lit(<<"m","i","n","i","m","a","l">>) \o <<Plus("s")>> \o Lit(<<"s","e","t","u","p">>),
     \* plug\s+and\s+play
     Lit(<<"p","l","u","g">>) \o <<Plus("s")>> \o Lit(<<"a","n","d">>) \o <<Plus("s")>> \o Lit(<<"p","l","a","y">>)
  >>],
  [category |-> "production", pattern_list |-> <<
     \* production\s+ready
     Lit(<<"p","r","o","d","u","c","t","i","o","n">>) \o <<Plus("s")>> \o Lit(<<"r","e","a","d","y">>),
     \* battle\s+tested
     Lit(<<"b","a","t","t","l","e">>) \o <<Plus("s")>> \o Lit(<<"t","e","s","t","e","d">>),
     \* enterprise\s+grade
     Lit(<<"e","n","t","e","r","p","r","i","s","e">>) \o <<Plus("s")>> \o Lit(<<"g","r","a","d","e">>),
     \* stable
     Lit(<<"s","t","a","b","l","e">>),
     \* reliable
     Lit(<<"r","e","l","i","a","b","l","e">>),
     \* proven
     Lit(<<"p","r","o","v","e","n">>),
     \* mature
     Lit(<<"m","a","t","u","r","e">>),
     \* industry\s+standard
     Lit(<<"i","n","d","u","s","t","r","y">>) \o <<Plus("s")>> \o Lit(<<"s","t","a","n","d","a","r","d">>)
  >>],
  [category |-> "lightweight", pattern_list |-> <<
     \* lightweight
     Lit(<<"l","i","g","h","t","w","e","i","g","h","t">>),
     \* minimal
     Lit(<<"m","i","n","i","m","a","l">>),
     \* tiny
     Lit(<<"t","i","n","y">>),
     \* small\s+footprint
     Lit(<<"s","m","a","l","l">>) \o <<Plus("s")>> \o Lit(<<"f","o","o","t","p","r","i","n","t">>),
     \* zero\s+dependencies
     Lit(<<"z","e","r","o">>) \o <<Plus("s")>> \o Lit(<<"d","e","p","e","n","d","e","n","c","i","e","s">>),
     \* no\s+dependencies
     Lit(<<"n","o">>) \o <<Plus("s")>> \o Lit(<<"d","e","p","e","n","d","e","n","c","i","e","s">>),
     \* minimal\s+dependencies
     Lit(<<"m","i","n","i","m","a","l">>) \o <<Plus("s")>> \o Lit(<<"d","e","p","e","n","d","e","n","c","i","e","s">>)
  >>],
  [category |-> "modern", pattern_list |-> <<
     \* modern
     Lit(<<"m","o","d","e","r","n">>),
     \* cutting\s+edge
     Lit(<<"c","u","t","t","i","n","g">>) \o <<Plus("s")>> \o Lit(<<"e","d","g","e">>),
     \* next\s+generation
     Lit(<<"n","e","x","t">>) \o <<Plus("s")>> \o Lit(<<"g","e","n","e","r","a","t","i","o","n">>),
     \* future\s+proof
     Lit(<<"f","u","t","u","r","e">>) \o <<Plus("s")>> \o Lit(<<"p","r","o","o","f">>),
     \* state\s+of\s+the\s+art
     Lit(<<"s","t","a","t","e">>) \o <<Plus("s")>> \o Lit(<<"o","f">>) \o <<Plus("s")>> \o Lit(<<"t","h","e">>) \o <<Plus("s")>> \o Lit(<<"a","r","t">>)
  >>],
  [category |-> "comprehensive", pattern_list |-> <<
     \* complete
     Lit(<<"c","o","m","p","l","e","t","e">>),
     \* full\s+featured
     Lit(<<"f","u","l","l">>) \o <<Plus("s")>> \o Lit(<<"f","e","a","t","u","r","e","d">>),
     \* comprehensive
     Lit(<<"c","o","m","p","r","e","h","e","n","s","i","v","e">>),
     \* all\s+in\s+one
     Lit(<<"a","l","l">>) \o <<Plus("s")>> \o Lit(<<"i","n">>) \o <<Plus("s")>> \o Lit(<<"o","n","e">>),
     \* everything\s+you\s+need
     Lit(<<"e","v","e","r","y","t","h","i","n","g">>) \o <<Plus("s")>> \o Lit(<<"y","o","u">>) \o <<Plus("s")>> \o Lit(<<"n","e","e","d">>)
  >>]
>>

\* for pattern in pattern_list: ... claims.append(...)
RECURSIVE ExtractPatterns(_, _, _, _)
ExtractPatterns(category, pattern_list, j, readme_lower) ==
    IF j > Len(pattern_list) THEN <<>>
    ELSE LET matches == FindAll(pattern_list[j], readme_lower)
         IN  (IF matches # <<>>
              THEN <<[category |-> category,
                      text |-> matches[1],
                      count |-> Len(matches)]>>
              ELSE <<>>)
             \o ExtractPatterns(category, pattern_list, j + 1, readme_lower)

\* for category, pattern_list in patterns.items(): ...
RECURSIVE ExtractCategories(_, _)
ExtractCategories(c, readme_lower) ==
    IF c > Len(patterns) THEN <<>>
    ELSE ExtractPatterns(patterns[c].category, patterns[c].pattern_list,
                         1, readme_lower)
         \o ExtractCategories(c + 1, readme_lower)

\* as _extract_claims, but the text is not lowercased first
_extract_claims_as_written(readme) == ExtractCategories(1, readme)

_extract_claims(readme) == ExtractCategories(1, Lower(readme))

----------------------------------------------------------------------------
(* The documents the analysis is run on: a README is a sequence of phrases *)
(* joined by single spaces.  Each phrase is one hype phrase of the named   *)
(* category, or neutral text.                                              *)

MaxPhrases == 2

Phrases == <<
    [category |-> "performance",
     text |-> <<"b","l","a","z","i","n","g","l","y"," ","f","a","s","t">>],
    [category |-> "performance",
     text |-> <<"L","i","g","h","t","n","i","n","g"," ","F","a","s","t">>],
    [category |-> "performance",
     text |-> <<"1","0","x"," "," ","f","a","s","t","e","r">>],
    [category |-> "performance",
     text |-> <<"b","l","a","z","i","n","g"," ","f","a","s","t">>],
    [category |-> "neutral",
     text |-> <<"f","a","s","t">>],
    [category |-> "simplicity",
     text |-> <<"s","i","m","p","l","e">>],
    [category |-> "simplicity",
     text |-> <<"j","u","s","t"," ","w","o","r","k","s">>],
    [category |-> "production",
     text |-> <<"p","r","o","d","u","c","t","i","o","n","\n","r","e","a","d","y">>],
    [category |-> "simplicity",
     text |-> <<"m","i","n","i","m","a","l"," ","s","e","t","u","p">>],
    [category |-> "lightweight",
     text |-> <<"z","e","r","o"," ","d","e","p","e","n","d","e","n","c","i","e","s">>]
>>

RECURSIVE Join(_)
Join(d) ==
    IF d = <<>> THEN <<>>
    ELSE IF Len(d) = 1 THEN Phrases[d[1]].text
    ELSE Phrases[d[1]].text \o <<" ">> \o Join(Tail(d))

SeqsUpTo(S, n) == UNION {[1..m -> S] : m \in 0..n}

Docs == SeqsUpTo(DOMAIN Phrases, MaxPhrases)

\* the number of phrases of d whose category is in cats
CountPhrases(d, cats) ==
    Cardinality({i \in DOMAIN d : Phrases[d[i]].category \in cats})

----------------------------------------------------------------------------
(* String helpers *)

\* sub in s
Contains(sub, s) ==
    \E i \in 1..(Len(s) - Len(sub) + 1) : SubSeq(s, i, i + Len(sub) - 1) = sub

\* s.startswith(prefix)
StartsWith(s, prefix) ==
    Len(prefix) <= Len(s) /\ SubSeq(s, 1, Len(prefix)) = prefix

\* s.lstrip() and s.rstrip(): whitespace removed at one end
RECURSIVE LStrip(_)
LStrip(s) ==
    IF s # <<>> /\ s[1] \in SpaceChars THEN LStrip(Tail(s)) ELSE s

RECURSIVE RStrip(_)
RStrip(s) ==
    IF s # <<>> /\ s[Len(s)] \in SpaceChars
    THEN RStrip(SubSeq(s, 1, Len(s) - 1))
    ELSE s

\* s.strip()
Strip(s) == RStrip(LStrip(s))

\* s.rstrip('/')
RECURSIVE RStripSlash(_)
RStripSlash(s) ==
    IF s # <<>> /\ s[Len(s)] = "/"
    THEN RStripSlash(SubSeq(s, 1, Len(s) - 1))
    ELSE s

\* s.split('/')
RECURSIVE SplitSlash(_)
SplitSlash(s) ==
    IF \E i \in DOMAIN s : s[i] = "/"
    THEN LET i == CHOOSE j \in DOMAIN s :
                    s[j] = "/" /\ \A m \in 1..(j - 1) : s[m] # "/"
         IN  <<SubSeq(s, 1, i - 1)>> \o SplitSlash(SubSeq(s, i + 1, Len(s)))
    ELSE <<s>>

\* the end of the longest run of characters other than '/' that starts at i
RECURSIVE NonSlashEnd(_, _)
NonSlashEnd(s, i) ==
    IF i <= Len(s) /\ s[i] # "/" THEN NonSlashEnd(s, i + 1) ELSE i

----------------------------------------------------------------------------
(* RepoAnalyzer._parse_repo_url *)

GithubCom == <<"g","i","t","h","u","b",".","c","o","m">>

\* re.search(r'github\.com/([^/]+)/([^/]+)', url) tried at position p:
\* the two groups, or None
GithubMatchAt(url, p) ==
    LET h == p + Len(GithubCom)          \* where the first '/' must be
        e1 == NonSlashEnd(url, h + 1)    \* end of group 1
        e2 == NonSlashEnd(url, e1 + 1)   \* end of group 2
    IN  IF /\ h <= Len(url)
           /\ SubSeq(url, p, h - 1) = GithubCom
           /\ url[h] = "/"
           /\ e1 > h + 1
           /\ e1 <= Len(url)
           /\ url[e1] = "/"
           /\ e2 > e1 + 1
        THEN Some(<<SubSeq(url, h + 1, e1 - 1), SubSeq(url, e1 + 1, e2 - 1)>>)
        ELSE None

\* the leftmost match
GithubSearch(url) ==
    LET ps == {p \in DOMAIN url : GithubMatchAt(url, p) # None}
    IN  IF ps = {} THEN None
        ELSE GithubMatchAt(url, CHOOSE p \in ps : \A q \in ps : p <= q)

\* Some(<<owner, repo_name>>), or None when ValueError is raised
_parse_repo_url(arg) ==
    LET url == RStripSlash(Strip(arg))
    IN  IF Contains(GithubCom, url)
        THEN GithubSearch(url)
        ELSE LET parts == SplitSlash(url)
             IN  IF Len(parts) = 2 THEN Some(<<parts[1], parts[2]>>) ELSE None

----------------------------------------------------------------------------
(* The report (the dict `data` of RepoAnalyzer.analyze).  A field holds    *)
(* its fail-closed default until analyze has evaluated it.  Of the         *)
(* metadata copied from the repository object the three timestamps are     *)
(* kept; a timestamp is a number of half days.                             *)

NoDependencies == [count |-> 0, type |-> "None", list |-> <<>>]
NoCommits == [last_90_days |-> 0, avg_per_week |-> 0, is_active |-> FALSE]
NoIssues == [open |-> 0, closed |-> 0, total |-> 0, close_rate |-> 0]

EmptyData == [
    created_at |-> 0,
    updated_at |-> 0,
    pushed_at |-> 0,
    readme |-> None,
    readme_claims |-> <<>>,
    languages |-> {},
    dependencies |-> NoDependencies,
    has_tests |-> FALSE,
    has_benchmarks |-> FALSE,
    has_ci |-> FALSE,
    has_docs |-> FALSE,
    test_coverage |-> Some(0),
    commit_frequency |-> NoCommits,
    issue_stats |-> NoIssues]

\* one query sent by a probe: <<probe, operation, argument>>
Call(probe, op, arg) == <<probe, op, arg>>

Outcome(op, fault) == [op |-> op, fault |-> fault]

\* how much of a probe's queries failed
FaultOf(failing, all) ==
    IF failing = {} THEN "none" ELSE IF failing = all THEN "all" ELSE "some"

----------------------------------------------------------------------------
(* RepoAnalyzer.__init__ and analyze up to the repository lookup *)

\* cli.roast line 65: RepoAnalyzer(repo_url, ...); a ValueError of
\* _parse_repo_url leaves the constructor
Construct ==
    /\ pc = "construct"
    /\ LET r == _parse_repo_url(repo_url)
       IN  IF r = None
           THEN /\ err' = Some([type |-> "ValueError", stage |-> "format"])
                /\ pc' = "analysis_error"
                /\ ident' = ident
           ELSE /\ ident' = r
                /\ pc' = "get_repo"
                /\ err' = err
    /\ last' = Outcome("construct", "none")
    /\ UNCHANGED <<prompt, repo_url, model, api_key, quick, platform, data, roaster,
                   roast_text, exit_code, calls, backend_env>>

\* analyze lines 60-63: a GithubException of get_repo is rethrown as
\* ValueError, any other exception propagates as it is.  Lines 68-80 copy
\* the metadata of the repository object into the report.
GetRepo ==
    /\ pc = "get_repo"
    /\ calls' = Append(calls, Call("lookup", "get_repo", ""))
    /\ \E fault \in {"none", "GithubException", "Exception"} :
         /\ last' = Outcome("get_repo", fault)
         /\ IF fault = "none"
            THEN /\ pc' = "readme"
                 /\ err' = err
                 /\ data' = [data EXCEPT !.created_at = platform.created_at,
                                         !.updated_at = platform.updated_at,
                                         !.pushed_at = platform.pushed_at]
            ELSE /\ pc' = "analysis_error"
                 /\ err' = Some([type |-> IF fault = "GithubException"
                                          THEN "ValueError" ELSE "Exception",
                                 stage |-> "access"])
                 /\ data' = data
    /\ UNCHANGED <<prompt, repo_url, model, api_key, quick, ident, platform,
                   roaster, roast_text, exit_code, backend_env>>

----------------------------------------------------------------------------
(* The evidence sub-probes, in the order analyze evaluates them *)

\* _get_readme
GetReadme ==
    /\ pc = "readme"
    /\ calls' = Append(calls, Call("readme", "get_readme", ""))
    /\ \E fail \in BOOLEAN :
         /\ last' = Outcome("readme", IF fail THEN "all" ELSE "none")
         /\ data' = [data EXCEPT !.readme =
                       IF fail \/ platform.readme = None
                       THEN None
                       ELSE Some(Join(platform.readme[1]))]
    /\ pc' = "languages"
    /\ UNCHANGED <<prompt, repo_url, model, api_key, quick, ident, platform, roaster,
                   roast_text, err, exit_code, backend_env>>

\* analyze line 83: repo.get_languages() is called outside any try
GetLanguages ==
    /\ pc = "languages"
    /\ calls' = Append(calls, Call("languages", "get_languages", ""))
    /\ \E fail \in BOOLEAN :
         /\ last' = Outcome("languages", IF fail THEN "all" ELSE "none")
         /\ IF fail
            THEN /\ err' = Some([type |-> "GithubException", stage |-> "analysis"])
                 /\ pc' = "analysis_error"
                 /\ data' = data
            ELSE /\ data' = [data EXCEPT !.languages = platform.languages]
                 /\ pc' = "dependencies"
                 /\ err' = err
    /\ UNCHANGED <<prompt, repo_url, model, api_key, quick, ident, platform, roaster,
                   roast_text, exit_code, backend_env>>

\* _get_dependencies: the manifests in the order of dep_files
dep_files == <<
    [filename |-> "package.json", dep_type |-> "npm"],
    [filename |-> "requirements.txt", dep_type |-> "pip"],
    [filename |-> "Cargo.toml", dep_type |-> "cargo"],
    [filename |-> "go.mod", dep_type |-> "go"],
    [filename |-> "pom.xml", dep_type |-> "maven"],
    [filename |-> "build.gradle", dep_type |-> "gradle"],
    [filename |-> "Gemfile", dep_type |-> "bundler"]>>

\* {**data.get('dependencies', {}), **data.get('devDependencies', {})}: the
\* keys in insertion order, each once
MergeKeys(deps, dev) ==
    deps \o SelectSeq(dev, LAMBDA k : \A i \in DOMAIN deps : deps[i] # k)

\* [l.strip() for l in lines if l.strip() and not l.startswith('#')]
RequirementLines(lines) ==
    LET kept == SelectSeq(lines,
                    LAMBDA l : Strip(l) # <<>> /\ ~StartsWith(l, <<"#">>))
    IN  [i \in DOMAIN kept |-> Strip(kept[i])]

\* as DepLoop, with the count of requirements.txt taken from its raw lines
RECURSIVE DepLoop_raw_count(_, _, _, _)
DepLoop_raw_count(manifests, failing, i, deps) ==
    IF i > Len(dep_files) THEN [deps |-> deps, fetched |-> <<>>]
    ELSE LET m == manifests[i]
             typed == [deps EXCEPT !.type = dep_files[i].dep_type]
             skip(d) == LET r == DepLoop_raw_count(manifests, failing, i + 1, d)
                        IN  [deps |-> r.deps, fetched |-> <<i>> \o r.fetched]
             stop(d) == [deps |-> d, fetched |-> <<i>>]
         IN  IF m.kind = "absent" \/ i \in failing THEN skip(deps)
             ELSE IF m.kind = "garbage" /\ i \in {1, 2} THEN skip(typed)
             ELSE IF i = 1
                  THEN LET keys == MergeKeys(m.dependencies, m.devDependencies)
                       IN  stop([typed EXCEPT !.count = Len(keys),
                                              !.list = keys])
             ELSE IF i = 2
                  THEN stop([typed EXCEPT !.list = RequirementLines(m.lines),
                                          !.count = Len(m.lines)])
             ELSE stop(typed)

\* The loop of lines 177-200 from file i on.  manifests[i] is what the
\* repository holds under dep_files[i] (kind "absent" when there is no such
\* file, "garbage" when it cannot be decoded or parsed); the fetch of the
\* files in failing raises.  Gives the record and the files fetched.
RECURSIVE DepLoop(_, _, _, _)
DepLoop(manifests, failing, i, deps) ==
    IF i > Len(dep_files) THEN [deps |-> deps, fetched |-> <<>>]
    ELSE LET m == manifests[i]
             typed == [deps EXCEPT !.type = dep_files[i].dep_type]
             skip(d) == LET r == DepLoop(manifests, failing, i + 1, d)
                        IN  [deps |-> r.deps, fetched |-> <<i>> \o r.fetched]
             stop(d) == [deps |-> d, fetched |-> <<i>>]
         IN  IF m.kind = "absent" \/ i \in failing THEN skip(deps)
             ELSE IF m.kind = "garbage" /\ i \in {1, 2} THEN skip(typed)
             ELSE IF i = 1
                  THEN LET keys == MergeKeys(m.dependencies, m.devDependencies)
                       IN  stop([typed EXCEPT !.count = Len(keys),
                                              !.list = keys])
             ELSE IF i = 2
                  THEN LET names == RequirementLines(m.lines)
                       IN  stop([typed EXCEPT !.list = names,
                                              !.count = Len(names)])
             ELSE stop(typed)

_get_dependencies(manifests, failing) ==
    DepLoop(manifests, failing, 1, NoDependencies)

GetDependencies ==
    /\ pc = "dependencies"
    /\ \E failing \in SUBSET DOMAIN dep_files :
         LET r == _get_dependencies(platform.manifests, failing)
         IN  /\ data' = [data EXCEPT !.dependencies = r.deps]
             /\ calls' = calls \o [k \in DOMAIN r.fetched |->
                            Call("dependencies", "get_contents",
                                 dep_files[r.fetched[k]].filename)]
             /\ last' = Outcome("dependencies",
                                FaultOf(failing, DOMAIN dep_files))
    /\ pc' = "tests"
    /\ UNCHANGED <<prompt, repo_url, model, api_key, quick, ident, platform, roaster,
                   roast_text, err, exit_code, backend_env>>

\* _check_tests
test_indicators == <<<<"t","e","s","t">>, <<"t","e","s","t","s">>, <<"_","_","t","e","s","t","s","_","_">>, <<"s","p","e","c">>, <<"s","p","e","c","s">>, <<"t","e","s","t","_">>, <<"_","t","e","s","t",".","p","y">>, <<".","t","e","s","t",".","j","s">>, <<".","s","p","e","c",".","j","s">>>>

HasIndicator(name, indicators) ==
    \E k \in DOMAIN indicators : Contains(indicators[k], Lower(name))

\* search_for_tests(items) from item k on.  tree maps a path to its
\* listing; the listing of the paths in failing raises.  Gives the answer
\* and the paths listed.
RECURSIVE SearchForTests(_, _, _, _)
SearchForTests(tree, failing, items, k) ==
    IF k > Len(items) THEN [found |-> FALSE, listed |-> <<>>]
    ELSE LET item == items[k]
             rest == SearchForTests(tree, failing, items, k + 1)
         IN  IF item.type = "dir"
             THEN IF HasIndicator(item.name, test_indicators)
                  THEN [found |-> TRUE, listed |-> <<>>]
                  ELSE IF item.path \in failing
                  THEN [found |-> rest.found,
                        listed |-> <<item.path>> \o rest.listed]
                  ELSE LET sub == SearchForTests(tree, failing,
                                                 tree[item.path], 1)
                       IN  IF sub.found
                           THEN [found |-> TRUE,
                                 listed |-> <<item.path>> \o sub.listed]
                           ELSE [found |-> rest.found,
                                 listed |-> <<item.path>> \o sub.listed
                                            \o rest.listed]
             ELSE IF item.type = "file"
                     /\ HasIndicator(item.name, test_indicators)
             THEN [found |-> TRUE, listed |-> <<>>]
             ELSE rest

_check_tests(tree, failing) ==
    IF "" \in failing THEN [found |-> FALSE, listed |-> <<"">>]
    ELSE LET r == SearchForTests(tree, failing, tree[""], 1)
         IN  [found |-> r.found, listed |-> <<"">> \o r.listed]

Listings(probe, listed) ==
    [k \in DOMAIN listed |-> Call(probe, "get_contents", listed[k])]

CheckTests ==
    /\ pc = "tests"
    /\ \E failing \in SUBSET DOMAIN platform.tree :
         LET r == _check_tests(platform.tree, failing)
         IN  /\ data' = [data EXCEPT !.has_tests = r.found]
             /\ calls' = calls \o Listings("tests", r.listed)
             /\ last' = Outcome("tests", FaultOf(failing, DOMAIN platform.tree))
    /\ pc' = "benchmarks"
    /\ UNCHANGED <<prompt, repo_url, model, api_key, quick, ident, platform, roaster,
                   roast_text, err, exit_code, backend_env>>

\* _check_benchmarks and _check_docs: a name of the root listing holds one
\* of the keywords
bench_indicators == <<<<"b","e","n","c","h","m","a","r","k">>, <<"b","e","n","c","h">>>>
doc_indicators == <<<<"d","o","c","s">>, <<"d","o","c","u","m","e","n","t","a","t","i","o","n">>, <<"d","o","c">>, <<"w","i","k","i">>>>

RootHas(tree, indicators) ==
    \E k \in DOMAIN tree[""] : HasIndicator(tree[""][k].name, indicators)

_check_benchmarks(tree, fail) == ~fail /\ RootHas(tree, bench_indicators)

_check_docs(tree, fail) == ~fail /\ RootHas(tree, doc_indicators)

CheckBenchmarks ==
    /\ pc = "benchmarks"
    /\ calls' = Append(calls, Call("benchmarks", "get_contents", ""))
    /\ \E fail \in BOOLEAN :
         /\ data' = [data EXCEPT !.has_benchmarks =
                                    _check_benchmarks(platform.tree, fail)]
         /\ last' = Outcome("benchmarks", IF fail THEN "all" ELSE "none")
    /\ pc' = "ci"
    /\ UNCHANGED <<prompt, repo_url, model, api_key, quick, ident, platform, roaster,
                   roast_text, err, exit_code, backend_env>>

\* _check_ci: the six paths are probed until one exists
ci_files == <<".github/workflows", ".travis.yml", ".circleci", "Jenkinsfile",
              ".gitlab-ci.yml", "azure-pipelines.yml">>

\* present: the indices of the paths the repository has; gives the answer
\* and the paths probed
RECURSIVE CiLoop(_, _, _)
CiLoop(present, failing, i) ==
    IF i > Len(ci_files) THEN [found |-> FALSE, probed |-> <<>>]
    ELSE IF i \in present /\ i \notin failing
    THEN [found |-> TRUE, probed |-> <<i>>]
    ELSE LET r == CiLoop(present, failing, i + 1)
         IN  [found |-> r.found, probed |-> <<i>> \o r.probed]

_check_ci(present, failing) == CiLoop(present, failing, 1)

CheckCi ==
    /\ pc = "ci"
    /\ \E failing \in SUBSET DOMAIN ci_files :
         LET r == _check_ci(platform.ci, failing)
         IN  /\ data' = [data EXCEPT !.has_ci = r.found]
             /\ calls' = calls \o [k \in DOMAIN r.probed |->
                            Call("ci", "get_contents", ci_files[r.probed[k]])]
             /\ last' = Outcome("ci", FaultOf(failing, DOMAIN ci_files))
    /\ pc' = "docs"
    /\ UNCHANGED <<prompt, repo_url, model, api_key, quick, ident, platform, roaster,
                   roast_text, err, exit_code, backend_env>>

CheckDocs ==
    /\ pc = "docs"
    /\ calls' = Append(calls, Call("docs", "get_contents", ""))
    /\ \E fail \in BOOLEAN :
         /\ data' = [data EXCEPT !.has_docs = _check_docs(platform.tree, fail)]
         /\ last' = Outcome("docs", IF fail THEN "all" ELSE "none")
    /\ pc' = "coverage"
    /\ UNCHANGED <<prompt, repo_url, model, api_key, quick, ident, platform, roaster,
                   roast_text, err, exit_code, backend_env>>

\* _estimate_test_coverage: runs _check_tests again
_estimate_test_coverage(found) == IF ~found THEN Some(0) ELSE None

EstimateTestCoverage ==
    /\ pc = "coverage"
    /\ \E failing \in SUBSET DOMAIN platform.tree :
         LET r == _check_tests(platform.tree, failing)
         IN  /\ data' = [data EXCEPT !.test_coverage =
                                        _estimate_test_coverage(r.found)]
             /\ calls' = calls \o Listings("coverage", r.listed)
             /\ last' = Outcome("coverage",
                                FaultOf(failing, DOMAIN platform.tree))
    /\ pc' = "commits"
    /\ UNCHANGED <<prompt, repo_url, model, api_key, quick, ident, platform, roaster,
                   roast_text, err, exit_code, backend_env>>

\* round(p / q, 0) for p >= 0, q > 0, ties to the even neighbour
RoundDiv(p, q) ==
    LET f == p \div q
        r == 2 * (p % q)
    IN  IF r < q THEN f
        ELSE IF r > q THEN f + 1
        ELSE IF f % 2 = 0 THEN f ELSE f + 1

\* _get_commit_frequency; avg_per_week is kept in tenths
_get_commit_frequency(commit_count, fail) ==
    IF fail THEN NoCommits
    ELSE [last_90_days |-> commit_count,
          avg_per_week |-> RoundDiv(commit_count * 10, 13),
          is_active |-> commit_count > 0]

GetCommitFrequency ==
    /\ pc = "commits"
    /\ calls' = Append(calls, Call("commits", "get_commits", ""))
    /\ \E fail \in BOOLEAN :
         /\ data' = [data EXCEPT !.commit_frequency =
                       _get_commit_frequency(platform.commits, fail)]
         /\ last' = Outcome("commits", IF fail THEN "all" ELSE "none")
    /\ pc' = "issues"
    /\ UNCHANGED <<prompt, repo_url, model, api_key, quick, ident, platform, roaster,
                   roast_text, err, exit_code, backend_env>>

\* as _get_issue_stats, with the total taken from the closed issues alone
_get_issue_stats_total_closed(open_issues, closed_issues, fail) ==
    IF fail THEN NoIssues
    ELSE LET total_issues == closed_issues
         IN  [open |-> open_issues,
              closed |-> closed_issues,
              total |-> total_issues,
              close_rate |-> IF total_issues > 0
                             THEN RoundDiv(closed_issues * 1000, total_issues)
                             ELSE 0]

\* _get_issue_stats; close_rate is kept in tenths of a percent
_get_issue_stats(open_issues, closed_issues, fail) ==
    IF fail THEN NoIssues
    ELSE LET total_issues == open_issues + closed_issues
         IN  [open |-> open_issues,
              closed |-> closed_issues,
              total |-> total_issues,
              close_rate |-> IF total_issues > 0
                             THEN RoundDiv(closed_issues * 1000, total_issues)
                             ELSE 0]

GetIssueStats ==
    /\ pc = "issues"
    /\ calls' = Append(calls, Call("issues", "get_issues", "closed"))
    /\ \E fail \in BOOLEAN :
         /\ data' = [data EXCEPT !.issue_stats =
                       _get_issue_stats(platform.open_issues,
                                        platform.closed_issues, fail)]
         /\ last' = Outcome("issues", IF fail THEN "all" ELSE "none")
    /\ pc' = "extract_claims"
    /\ UNCHANGED <<prompt, repo_url, model, api_key, quick, ident, platform, roaster,
                   roast_text, err, exit_code, backend_env>>

\* analyze, lines 95-99: claims are extracted from a README that is
\* neither None nor empty, and the report is returned
ExtractClaims ==
    /\ pc = "extract_claims"
    /\ data' = IF data.readme # None /\ data.readme[1] # <<>>
               THEN [data EXCEPT !.readme_claims = _extract_claims(data.readme[1])]
               ELSE data
    /\ pc' = "make_roaster"
    /\ last' = Outcome("extract_claims", "none")
    /\ UNCHANGED <<prompt, repo_url, model, api_key, quick, ident, platform, roaster,
                   roast_text, err, exit_code, calls, backend_env>>

----------------------------------------------------------------------------
(* AIRoaster.quick_roast.  The returned text is modelled by what it shows:  *)
(* the mismatch entries in order, the all-clear line, the score line and    *)
(* the verdict line.                                                        *)

\* [c for c in repo_data['readme_claims'] if c['category'] == category]
ClaimsOf(repo_data, category) ==
    SelectSeq(repo_data.readme_claims, LAMBDA c : c.category = category)

\* lines 156-184: the three rules; the entries appended and the score left
\* as PerfRule, but the deduction is made for every performance claim
PerfRule_per_claim(repo_data) ==
    LET perf_claims == ClaimsOf(repo_data, "performance")
    IN  IF perf_claims # <<>> /\ ~repo_data.has_benchmarks
        THEN [roasts |-> <<[claim |-> perf_claims[1].text,
                            evidence |-> "No benchmarks found",
                            arg |-> None]>>,
              minus |-> 20 * Len(perf_claims)]
        ELSE [roasts |-> <<>>, minus |-> 0]

PerfRule(repo_data) ==
    LET perf_claims == ClaimsOf(repo_data, "performance")
    IN  IF perf_claims # <<>> /\ ~repo_data.has_benchmarks
        THEN [roasts |-> <<[claim |-> perf_claims[1].text,
                            evidence |-> "No benchmarks found",
                            arg |-> None]>>,
              minus |-> 20]
        ELSE [roasts |-> <<>>, minus |-> 0]

\* as DepRule, deducting one point for every dependency above fifty
DepRule_per_dependency(repo_data) ==
    LET dep_claims == ClaimsOf(repo_data, "lightweight")
    IN  IF dep_claims # <<>> /\ repo_data.dependencies.count > 50
        THEN [roasts |-> <<[claim |-> dep_claims[1].text,
                            evidence |-> "dependencies",
                            arg |-> Some(repo_data.dependencies.count)]>>,
              minus |-> repo_data.dependencies.count - 50]
        ELSE [roasts |-> <<>>, minus |-> 0]

DepRule(repo_data) ==
    LET dep_claims == ClaimsOf(repo_data, "lightweight")
    IN  IF dep_claims # <<>> /\ repo_data.dependencies.count > 50
        THEN [roasts |-> <<[claim |-> dep_claims[1].text,
                            evidence |-> "dependencies",
                            arg |-> Some(repo_data.dependencies.count)]>>,
              minus |-> 15]
        ELSE [roasts |-> <<>>, minus |-> 0]

ProdRule(repo_data) ==
    LET prod_claims == ClaimsOf(repo_data, "production")
    IN  IF prod_claims # <<>> /\ ~repo_data.has_tests
        THEN [roasts |-> <<[claim |-> prod_claims[1].text,
                            evidence |-> "No tests detected",
                            arg |-> None]>>,
              minus |-> 25]
        ELSE [roasts |-> <<>>, minus |-> 0]

\* as Verdict, with the second threshold at 80
Verdict_threshold_80(score) ==
    IF score >= 90 THEN "Honest AF"
    ELSE IF score >= 80 THEN "Mostly True"
    ELSE IF score >= 50 THEN "Marketing Spin"
    ELSE IF score >= 30 THEN "Creative Liberties"
    ELSE "README Fiction"

\* lines 199-209
Verdict(score) ==
    IF score >= 90 THEN "Honest AF"
    ELSE IF score >= 70 THEN "Mostly True"
    ELSE IF score >= 50 THEN "Marketing Spin"
    ELSE IF score >= 30 THEN "Creative Liberties"
    ELSE "README Fiction"

\* as FinalScore, without the override
FinalScore_untouched(roasts, score) == score

\* lines 190-197: with no entry the score is set to 95
FinalScore(roasts, score) == IF roasts # <<>> THEN score ELSE 95

quick_roast(repo_data) ==
    LET r1 == PerfRule(repo_data)
        r2 == DepRule(repo_data)
        r3 == ProdRule(repo_data)
        roasts == r1.roasts \o r2.roasts \o r3.roasts
        score == FinalScore(roasts, 100 - r1.minus - r2.minus - r3.minus)
    IN  [roasts |-> roasts,
         all_clear |-> (roasts = <<>>),
         score |-> score,
         verdict |-> Verdict(score)]

----------------------------------------------------------------------------
(* AIRoaster.__init__, _init_ollama, _init_openai, roast *)

\* what the run finds of the backends: whether the client libraries are
\* installed, whether the local server answers, whether it holds the model
BackendEnvs == [openai_installed : BOOLEAN, ollama_installed : BOOLEAN,
                server_up : BOOLEAN, model_pulled : BOOLEAN]

NoRoaster == [client |-> "None", backend |-> "None"]

Gpt == <<"g","p","t">>

\* _init_openai: the exception raised (or "None"), the instance left, the
\* backend queries made and the failure met
_init_openai(key, env) ==
    IF key = None \/ key[1] = <<>>
    THEN [raises |-> "ValueError", roaster |-> NoRoaster, queries |-> <<>>,
          fault |-> "missing_credential"]
    ELSE IF ~env.openai_installed
    THEN [raises |-> "ImportError", roaster |-> NoRoaster, queries |-> <<>>,
          fault |-> "not_installed"]
    ELSE [raises |-> "None",
          roaster |-> [client |-> "OpenAI", backend |-> "openai"],
          queries |-> <<>>, fault |-> "none"]

\* _init_ollama: the exceptions of the availability check (lines 44-55) are
\* caught by its own except clause
_init_ollama(env) ==
    IF ~env.ollama_installed
    THEN [raises |-> "ImportError", roaster |-> NoRoaster, queries |-> <<>>,
          fault |-> "not_installed"]
    ELSE [raises |-> "None",
          roaster |-> [client |-> "ollama", backend |-> "ollama"],
          queries |-> <<Call("backend", "list", "")>>,
          fault |-> IF ~env.server_up THEN "network"
                    ELSE IF ~env.model_pulled THEN "model_unavailable"
                    ELSE "none"]

\* AIRoaster.__init__(model, api_key, quick_mode)
AIRoaster(m, key, quick_mode, env) ==
    IF quick_mode
    THEN [raises |-> "None", roaster |-> NoRoaster, queries |-> <<>>,
          fault |-> "none"]
    ELSE IF StartsWith(m, Gpt) THEN _init_openai(key, env)
    ELSE _init_ollama(env)

\* cli.roast lines 81 and 88: AIRoaster(model=model, api_key=api_key), with
\* quick_mode left at its default.  Line 81 is outside the try of line 87.
MakeRoaster ==
    /\ pc = "make_roaster"
    /\ \E env \in BackendEnvs :
         LET r == AIRoaster(model, api_key, FALSE, env)
         IN  /\ backend_env' = Some(env)
             /\ roaster' = r.roaster
             /\ calls' = calls \o r.queries
             /\ last' = Outcome("make_roaster", r.fault)
             /\ IF r.raises # "None"
                THEN /\ err' = Some([type |-> r.raises, stage |-> "backend"])
                     /\ pc' = IF quick THEN "uncaught" ELSE "backend_error"
                ELSE /\ err' = err
                     /\ pc' = IF quick THEN "quick_roast" ELSE "roast"
    /\ UNCHANGED <<prompt, repo_url, model, api_key, quick, ident, platform, data,
                   roast_text, exit_code>>

\* as QuickRoast, with the claims taken off the report as they are scored
QuickRoast_consumes_claims ==
    /\ pc = "quick_roast"
    /\ roast_text' = Some(quick_roast(data))
    /\ data' = [data EXCEPT !.readme_claims = <<>>]
    /\ pc' = "display"
    /\ last' = Outcome("quick_roast", "none")
    /\ UNCHANGED <<prompt, repo_url, model, api_key, quick, ident, platform,
                   roaster, err, exit_code, calls, backend_env>>

\* cli.roast, line 82
QuickRoast ==
    /\ pc = "quick_roast"
    /\ roast_text' = Some(quick_roast(data))
    /\ pc' = "display"
    /\ last' = Outcome("quick_roast", "none")
    /\ UNCHANGED <<prompt, repo_url, model, api_key, quick, ident, platform, data,
                   roaster, err, exit_code, calls, backend_env>>

----------------------------------------------------------------------------
(* prompts.build_analysis_prompt.  A rendered line is the tuple of its     *)
(* parts: the fixed text as strings, the formatted values as themselves.   *)
(* The prompt is the record of the template's computed slots (the slots    *)
(* name, stars, description, open_issues and license copy metadata the     *)
(* report of this model does not carry).                                   *)

\* timedelta.days of a gap counted in half days
Days(delta) == delta \div 2

\* str.upper of a category label
UpperLabel(category) ==
    CASE category = "performance" -> "PERFORMANCE"
      [] category = "simplicity" -> "SIMPLICITY"
      [] category = "production" -> "PRODUCTION"
      [] category = "lightweight" -> "LIGHTWEIGHT"
      [] category = "modern" -> "MODERN"
      [] category = "comprehensive" -> "COMPREHENSIVE"

\* lines 107-113: one bullet for each of the first ten claims
ClaimsText(readme_claims) ==
    IF readme_claims # <<>>
    THEN LET n == IF Len(readme_claims) < 10 THEN Len(readme_claims) ELSE 10
         IN  [k \in 1..n |->
                <<"- ", UpperLabel(readme_claims[k].category), ": \"",
                  readme_claims[k].text, "\" (mentioned ",
                  readme_claims[k].count, "x)">>]
    ELSE << <<"- No specific claims detected in README">> >>

\* as Age, dividing to the nearest whole number
Age_rounded(age_days) ==
    IF age_days < 30 THEN <<age_days, " days old (fresh!)">>
    ELSE IF age_days < 365 THEN <<(age_days + 15) \div 30, " months old">>
    ELSE <<(age_days + 182) \div 365, " years old">>

\* lines 115-122
Age(age_days) ==
    IF age_days < 30 THEN <<age_days, " days old (fresh!)">>
    ELSE IF age_days < 365 THEN <<age_days \div 30, " months old">>
    ELSE <<age_days \div 365, " years old">>

\* lines 124-135
LastCommit(days_since_commit) ==
    IF days_since_commit = 0 THEN <<"today">>
    ELSE IF days_since_commit = 1 THEN <<"yesterday">>
    ELSE IF days_since_commit < 30 THEN <<days_since_commit, " days ago">>
    ELSE IF days_since_commit < 365
    THEN <<days_since_commit \div 30, " months ago">>
    ELSE <<days_since_commit \div 365, " years ago">>

\* any(c['category'] == category for c in readme_claims)
AnyClaim(readme_claims, category) ==
    \E k \in DOMAIN readme_claims : readme_claims[k].category = category

\* as SpecificClaims, looking at the claims the listing renders only
SpecificClaims_listed_only(repo_data) ==
    LET n == IF Len(repo_data.readme_claims) < 10
             THEN Len(repo_data.readme_claims) ELSE 10
        listed == SubSeq(repo_data.readme_claims, 1, n)
        line(category, text) ==
            IF AnyClaim(listed, category) THEN <<text>> ELSE <<>>
    IN  line("performance",
             <<"- Performance claims: Has benchmarks = ",
               repo_data.has_benchmarks>>)
        \o line("lightweight",
                <<"- Lightweight claims: ", repo_data.dependencies.count,
                  " dependencies">>)
        \o line("production",
                <<"- Production ready claims: Tests = ", repo_data.has_tests,
                  ", CI = ", repo_data.has_ci>>)
        \o line("simplicity",
                <<"- Simplicity claims: Dependency count = ",
                  repo_data.dependencies.count>>)

\* lines 137-146: specific_claims
SpecificClaims(repo_data) ==
    LET line(category, text) ==
            IF AnyClaim(repo_data.readme_claims, category)
            THEN <<text>> ELSE <<>>
    IN  line("performance",
             <<"- Performance claims: Has benchmarks = ",
               repo_data.has_benchmarks>>)
        \o line("lightweight",
                <<"- Lightweight claims: ", repo_data.dependencies.count,
                  " dependencies">>)
        \o line("production",
                <<"- Production ready claims: Tests = ", repo_data.has_tests,
                  ", CI = ", repo_data.has_ci>>)
        \o line("simplicity",
                <<"- Simplicity claims: Dependency count = ",
                  repo_data.dependencies.count>>)

\* line 148: the lines joined, or the placeholder
SpecificClaimsText(specific_claims) ==
    IF specific_claims # <<>> THEN specific_claims
    ELSE << <<"- No specific claims to verify">> >>

\* build_analysis_prompt(data, spicy) when datetime.now() gives now
build_analysis_prompt(repo_data, spicy, now) ==
    [claims |-> ClaimsText(repo_data.readme_claims),
     dep_count |-> repo_data.dependencies.count,
     dep_type |-> IF repo_data.dependencies.type = "None"
                  THEN "unknown" ELSE repo_data.dependencies.type,
     has_tests |-> repo_data.has_tests,
     test_coverage |-> IF repo_data.test_coverage = None
                          \/ repo_data.test_coverage[1] = 0
                       THEN "Unknown" ELSE repo_data.test_coverage[1],
     has_benchmarks |-> repo_data.has_benchmarks,
     has_ci |-> repo_data.has_ci,
     has_docs |-> repo_data.has_docs,
     last_commit |-> LastCommit(Days(now - repo_data.pushed_at)),
     commit_count |-> repo_data.commit_frequency.last_90_days,
     issue_close_rate |-> repo_data.issue_stats.close_rate,
     age |-> Age(Days(repo_data.updated_at - repo_data.created_at)),
     specific_claims |-> SpecificClaimsText(SpecificClaims(repo_data)),
     spicy |-> spicy]

\* how long after the last push the prompt is composed, in half days
ClockLags == {0, 3, 900}

\* AIRoaster.roast line 90: the prompt is composed before the backend is
\* called; --spicy is passed through
BuildPrompt ==
    /\ pc = "roast"
    /\ \E spicy \in BOOLEAN, lag \in ClockLags :
         prompt' = Some(build_analysis_prompt(data, spicy,
                                              data.pushed_at + lag))
    /\ pc' = "chat"
    /\ last' = Outcome("build_prompt", "none")
    /\ UNCHANGED <<repo_url, model, api_key, quick, ident, platform, data,
                   roaster, roast_text, err, exit_code, calls, backend_env>>

\* _roast_ollama / _roast_openai: the chat call; every exception is rethrown
\* as RuntimeError, with the remediation hint for the local backend.
\* Gives the failure met ("none" when the call answers).
ChatFault(r, env, transient) ==
    IF r.backend = "ollama" /\ ~env.server_up THEN "network"
    ELSE IF r.backend = "ollama" /\ ~env.model_pulled THEN "model_unavailable"
    ELSE IF transient THEN "network"
    ELSE "none"

ChatError(r, fault) ==
    [type |-> "RuntimeError", stage |-> "backend", message |-> fault,
     hint |-> (r.backend = "ollama")]

\* AIRoaster.roast lines 93-96: the backend call that ends
\* roaster.roast(data, spicy) of cli.roast line 89
Roast ==
    /\ pc = "chat"
    /\ calls' = Append(calls, Call("backend", "chat", ""))
    /\ \E transient \in BOOLEAN :
         LET fault == ChatFault(roaster, backend_env[1], transient)
         IN  /\ last' = Outcome("roast", fault)
             /\ IF fault = "none"
                THEN /\ roast_text' = Some([backend |-> roaster.backend])
                     /\ pc' = "display"
                     /\ err' = err
                ELSE /\ err' = Some(ChatError(roaster, fault))
                     /\ pc' = "backend_error"
                     /\ roast_text' = roast_text
    /\ UNCHANGED <<prompt, repo_url, model, api_key, quick, ident, platform, data,
                   roaster, exit_code, backend_env>>

----------------------------------------------------------------------------
(* cli.roast: the ends of a run *)

Exit(code) ==
    /\ exit_code' = Some(code)
    /\ pc' = "exit"
    /\ UNCHANGED <<prompt, repo_url, model, api_key, quick, ident, platform, data,
                   roaster, roast_text, err, calls, last, backend_env>>

\* lines 67-72: both handlers report and call sys.exit(1)
CliAnalyzeError == pc = "analysis_error" /\ Exit(1)

\* as CliBackendError, without the nonzero status
CliBackendError_status_0 == pc = "backend_error" /\ Exit(0)

\* lines 90-97
CliBackendError == pc = "backend_error" /\ Exit(1)

\* an exception no handler of roast catches: the interpreter prints the
\* traceback and exits with status 1
Uncaught == pc = "uncaught" /\ Exit(1)

\* lines 99-118: the roast is displayed and the command returns
Display == pc = "display" /\ Exit(0)

----------------------------------------------------------------------------
(* Runs of the roast command *)

Mistral == <<"m","i","s","t","r","a","l">>
Gpt4 == <<"g","p","t","-","4">>

Item(name, type, path) == [name |-> name, type |-> type, path |-> path]

\* a repository that oversells: hype in the README, sixty npm packages,
\* tests only inside src, no benchmarks, no CI, four hundred days old
RepoHype == [
    created_at |-> 0,
    updated_at |-> 801,
    pushed_at |-> 801,
    readme |-> Some(<<4, 10>>),
    languages |-> {"JavaScript"},
    manifests |-> <<[kind |-> "json",
                     dependencies |-> [i \in 1..40 |-> i],
                     devDependencies |-> [i \in 1..26 |-> 34 + i]],
                    [kind |-> "absent"], [kind |-> "absent"],
                    [kind |-> "absent"], [kind |-> "absent"],
                    [kind |-> "absent"], [kind |-> "absent"]>>,
    tree |-> ("" :> <<Item(<<"s","r","c">>, "dir", "src"),
                      Item(<<"D","o","c","k","e","r","f","i","l","e">>, "file", "Dockerfile")>>)
             @@ ("src" :> <<Item(<<"m","a","i","n",".","j","s">>, "file", "src/main.js"),
                            Item(<<"m","a","i","n",".","t","e","s","t",".","j","s">>, "file", "src/main.test.js")>>),
    ci |-> {},
    commits |-> 26,
    open_issues |-> 3,
    closed_issues |-> 1]

\* a plain repository: an unparsable package.json beside requirements.txt,
\* top-level tests, benchmarks and docs, Travis CI, no README, ten days old
RepoPlain == [
    created_at |-> 0,
    updated_at |-> 21,
    pushed_at |-> 20,
    readme |-> None,
    languages |-> {"Python"},
    manifests |-> <<[kind |-> "garbage"],
                    [kind |-> "lines",
                     lines |-> <<<<"f","l","a","s","k">>, <<"#"," ","p","i","n","n","e","d">>, <<>>, <<" ","r","e","q","u","e","s","t","s"," ">>>>],
                    [kind |-> "absent"], [kind |-> "absent"],
                    [kind |-> "absent"], [kind |-> "absent"],
                    [kind |-> "opaque"]>>,
    tree |-> ("" :> <<Item(<<"T","e","s","t","s">>, "dir", "Tests"),
                      Item(<<"b","e","n","c","h","m","a","r","k","s">>, "dir", "benchmarks"),
                      Item(<<"d","o","c","s">>, "dir", "docs")>>),
    ci |-> {2},
    commits |-> 0,
    open_issues |-> 0,
    closed_issues |-> 0]

Platforms == {RepoHype, RepoPlain}

NoPlatform == [RepoPlain EXCEPT !.readme = None]

RepoUrls == {<<"h","t","t","p","s",":","/","/","g","i","t","h","u","b",".","c","o","m","/","f","a","c","e","b","o","o","k","/","r","e","a","c","t">>,
             <<"f","a","c","e","b","o","o","k","/","r","e","a","c","t">>,
             <<"n","o","t","-","a","-","v","a","l","i","d","-","r","e","f">>}

Init ==
    /\ pc = "construct"
    /\ repo_url \in RepoUrls
    /\ model \in {Mistral, Gpt4}
    /\ api_key \in {None, Some(<<"s", "k">>)}
    /\ quick \in BOOLEAN
    /\ platform \in Platforms
    /\ ident = None
    /\ data = EmptyData
    /\ roaster = NoRoaster
    /\ roast_text = None
    /\ err = None
    /\ exit_code = None
    /\ calls = <<>>
    /\ last = Outcome("start", "none")
    /\ backend_env = None
    /\ prompt = None

Next ==
    \/ Construct
    \/ GetRepo
    \/ GetReadme
    \/ GetLanguages
    \/ GetDependencies
    \/ CheckTests
    \/ CheckBenchmarks
    \/ CheckCi
    \/ CheckDocs
    \/ EstimateTestCoverage
    \/ GetCommitFrequency
    \/ GetIssueStats
    \/ ExtractClaims
    \/ MakeRoaster
    \/ QuickRoast
    \/ BuildPrompt
    \/ Roast
    \/ CliAnalyzeError
    \/ CliBackendError
    \/ Uncaught
    \/ Display

Spec == Init /\ [][Next]_vars

----------------------------------------------------------------------------
(* The claim extractor alone, over every document *)

InitClaims ==
    /\ pc = "extract_claims"
    /\ \E d \in {None} \cup {Some(x) : x \in Docs} :
         /\ platform = [NoPlatform EXCEPT !.readme = d]
         /\ data = [EmptyData EXCEPT
                      !.readme = IF d = None THEN None ELSE Some(Join(d[1]))]
    /\ repo_url = <<>>
    /\ model = Mistral
    /\ api_key = None
    /\ quick = FALSE
    /\ ident = None
    /\ roaster = NoRoaster
    /\ roast_text = None
    /\ err = None
    /\ exit_code = None
    /\ calls = <<>>
    /\ last = Outcome("start", "none")
    /\ backend_env = None
    /\ prompt = None

NextClaims == ExtractClaims

SpecClaims == InitClaims /\ [][NextClaims]_vars

----------------------------------------------------------------------------
(* The scoring heuristic alone, over reports *)

MaxClaims == 3

ClaimPool == {
    [category |-> "performance", text |-> <<"b","l","a","z","i","n","g">>, count |-> 1],
    [category |-> "performance", text |-> <<"o","p","t","i","m","i","z","e","d">>, count |-> 2],
    [category |-> "lightweight", text |-> <<"t","i","n","y">>, count |-> 1],
    [category |-> "lightweight", text |-> <<"m","i","n","i","m","a","l">>, count |-> 1],
    [category |-> "production", text |-> <<"s","t","a","b","l","e">>, count |-> 1],
    [category |-> "production", text |-> <<"m","a","t","u","r","e">>, count |-> 3],
    [category |-> "simplicity", text |-> <<"e","a","s","y">>, count |-> 1]
}

DepCounts == {0, 50, 51, 127}

InitQuick ==
    /\ pc = "quick_roast"
    /\ \E cl \in SeqsUpTo(ClaimPool, MaxClaims), n \in DepCounts,
          t \in BOOLEAN, b \in BOOLEAN :
         data = [EmptyData EXCEPT
                   !.readme_claims = cl,
                   !.dependencies = [count |-> n, type |-> "npm", list |-> <<>>],
                   !.has_tests = t,
                   !.has_benchmarks = b]
    /\ platform = NoPlatform
    /\ repo_url = <<>>
    /\ model = Mistral
    /\ api_key = None
    /\ quick = TRUE
    /\ ident = None
    /\ roaster = NoRoaster
    /\ roast_text = None
    /\ err = None
    /\ exit_code = None
    /\ calls = <<>>
    /\ last = Outcome("start", "none")
    /\ backend_env = None
    /\ prompt = None

NextQuick == QuickRoast

SpecQuick == InitQuick /\ [][NextQuick]_vars

----------------------------------------------------------------------------
(* The repository reference parser alone, over references *)

UrlSchemes == {<<>>, <<"h","t","t","p","s",":","/","/">>}
UrlHosts == {<<>>, <<"g","i","t","h","u","b",".","c","o","m","/">>, <<"g","i","t","l","a","b",".","c","o","m","/">>, <<"m","y","g","i","t","h","u","b",".","c","o","m","/">>}
UrlPaths == {<<"f","a","c","e","b","o","o","k","/","r","e","a","c","t">>,
             <<"f","a","c","e","b","o","o","k">>,
             <<"/","r","e","a","c","t">>,
             <<"f","a","c","e","b","o","o","k","/">>,
             <<"f","a","c","e","b","o","o","k","/","/","r","e","a","c","t">>,
             <<"f","a","c","e","b","o","o","k","/","r","e","a","c","t","/","i","s","s","u","e","s">>,
             <<"n","o","t","-","a","-","v","a","l","i","d","-","r","e","f">>,
             <<>>}
UrlTails == {<<>>, <<"/">>, <<" ">>}

UrlInputs == {s \o h \o p \o t :
                s \in UrlSchemes, h \in UrlHosts, p \in UrlPaths, t \in UrlTails}

InitParse ==
    /\ pc = "construct"
    /\ repo_url \in UrlInputs
    /\ model = Mistral
    /\ api_key = None
    /\ quick = FALSE
    /\ platform = NoPlatform
    /\ ident = None
    /\ data = EmptyData
    /\ roaster = NoRoaster
    /\ roast_text = None
    /\ err = None
    /\ exit_code = None
    /\ calls = <<>>
    /\ last = Outcome("start", "none")
    /\ backend_env = None
    /\ prompt = None

NextParse == Construct \/ CliAnalyzeError

SpecParse == InitParse /\ [][NextParse]_vars

----------------------------------------------------------------------------
(* The dependency probe alone, over the manifests a repository may hold *)

MaxDeps == 2

\* package.json with n dependencies and m devDependencies, one key shared
\* when both are present
JsonManifests ==
    {[kind |-> "json",
      dependencies |-> [i \in 1..n |-> i],
      devDependencies |-> [i \in 1..m |-> n + i - 1]] : n, m \in 0..MaxDeps}

RequirementPool == {<<"f","l","a","s","k">>, <<"#"," ","p","i","n","n","e","d">>,
                    <<" ","r","e","q","u","e","s","t","s"," ">>}

LineManifests ==
    {[kind |-> "lines", lines |-> l] : l \in SeqsUpTo(RequirementPool, MaxDeps)}

\* the five manifests that are not parsed: none, one of them, or all
OpaqueSets == {{}, 3..7} \cup {{i} : i \in 3..7}

ManifestSets ==
    {[i \in DOMAIN dep_files |->
        IF i = 1 THEN a ELSE IF i = 2 THEN b
        ELSE IF i \in o THEN [kind |-> "opaque"] ELSE [kind |-> "absent"]] :
       a \in {[kind |-> "absent"], [kind |-> "garbage"]} \cup JsonManifests,
       b \in {[kind |-> "absent"], [kind |-> "garbage"]} \cup LineManifests,
       o \in OpaqueSets}

InitDeps ==
    /\ pc = "dependencies"
    /\ \E m \in ManifestSets : platform = [NoPlatform EXCEPT !.manifests = m]
    /\ data = EmptyData
    /\ repo_url = <<>>
    /\ model = Mistral
    /\ api_key = None
    /\ quick = FALSE
    /\ ident = None
    /\ roaster = NoRoaster
    /\ roast_text = None
    /\ err = None
    /\ exit_code = None
    /\ calls = <<>>
    /\ last = Outcome("start", "none")
    /\ backend_env = None
    /\ prompt = None

NextDeps == GetDependencies

SpecDeps == InitDeps /\ [][NextDeps]_vars

----------------------------------------------------------------------------
(* The issue statistics alone, over the issue counts of a repository *)

MaxIssues == 12

InitIssues ==
    /\ pc = "issues"
    /\ \E o \in 0..MaxIssues, c \in 0..MaxIssues :
         platform = [NoPlatform EXCEPT !.open_issues = o, !.closed_issues = c]
    /\ data = EmptyData
    /\ repo_url = <<>>
    /\ model = Mistral
    /\ api_key = None
    /\ quick = FALSE
    /\ ident = None
    /\ roaster = NoRoaster
    /\ roast_text = None
    /\ err = None
    /\ exit_code = None
    /\ calls = <<>>
    /\ last = Outcome("start", "none")
    /\ backend_env = None
    /\ prompt = None

NextIssues == GetIssueStats

SpecIssues == InitIssues /\ [][NextIssues]_vars

----------------------------------------------------------------------------
(* The prompt composer alone, over reports: every age up to MaxAgeDays     *)
(* with no claim, and every claim list at one age                          *)

MaxAgeDays == 800

\* one claim of each category
PromptPool == {
    [category |-> "performance", text |-> <<"b","l","a","z","i","n","g">>, count |-> 1],
    [category |-> "simplicity", text |-> <<"e","a","s","y">>, count |-> 1],
    [category |-> "production", text |-> <<"s","t","a","b","l","e">>, count |-> 2],
    [category |-> "lightweight", text |-> <<"t","i","n","y">>, count |-> 1],
    [category |-> "modern", text |-> <<"m","o","d","e","r","n">>, count |-> 4],
    [category |-> "comprehensive", text |-> <<"c","o","m","p","l","e","t","e">>, count |-> 1]
}

\* ten claims that fill the listing
TenClaims ==
    [k \in 1..10 |->
       [category |-> "modern", text |-> <<"m","o","d","e","r","n">>, count |-> k]]

PromptClaims ==
    {pre \o cl : pre \in {<<>>, TenClaims}, cl \in SeqsUpTo(PromptPool, MaxClaims)}

InitPrompt ==
    /\ pc = "roast"
    /\ \/ \E t \in 0..(2 * MaxAgeDays + 1) :
            data = [EmptyData EXCEPT !.updated_at = t, !.pushed_at = t]
       \/ \E cl \in PromptClaims, b \in BOOLEAN :
            data = [EmptyData EXCEPT !.updated_at = 21,
                                     !.readme_claims = cl,
                                     !.has_benchmarks = b]
    /\ platform = NoPlatform
    /\ repo_url = <<>>
    /\ model = Mistral
    /\ api_key = None
    /\ quick = FALSE
    /\ ident = None
    /\ roaster = [client |-> "ollama", backend |-> "ollama"]
    /\ roast_text = None
    /\ err = None
    /\ exit_code = None
    /\ calls = <<>>
    /\ last = Outcome("start", "none")
    /\ backend_env = None
    /\ prompt = None

NextPrompt == BuildPrompt

SpecPrompt == InitPrompt /\ [][NextPrompt]_vars

----------------------------------------------------------------------------
(* The roast command from the return of analyze on, over reports *)

ReturnedReports ==
    {[EmptyData EXCEPT !.updated_at = 801,
                       !.pushed_at = 801,
                       !.readme_claims = cl,
                       !.dependencies = [count |-> n, type |-> "npm",
                                         list |-> <<>>],
                       !.has_tests = t] :
       cl \in SeqsUpTo(PromptPool, 1), n \in {0, 51}, t \in BOOLEAN}

InitRoast ==
    /\ pc = "make_roaster"
    /\ data \in ReturnedReports
    /\ model \in {Mistral, Gpt4}
    /\ api_key \in {None, Some(<<"s", "k">>)}
    /\ quick \in BOOLEAN
    /\ platform = NoPlatform
    /\ repo_url = <<>>
    /\ ident = None
    /\ roaster = NoRoaster
    /\ roast_text = None
    /\ err = None
    /\ exit_code = None
    /\ calls = <<>>
    /\ last = Outcome("extract_claims", "none")
    /\ backend_env = None
    /\ prompt = None

NextRoast ==
    \/ MakeRoaster
    \/ QuickRoast
    \/ BuildPrompt
    \/ Roast
    \/ CliBackendError
    \/ Uncaught
    \/ Display

SpecRoast == InitRoast /\ [][NextRoast]_vars

----------------------------------------------------------------------------
(* Properties of the run of the roast command (Spec) *)

\* the probes that have sent a query so far
ProbesRun == {calls[i][1] : i \in DOMAIN calls}

EvidenceProbes == {"readme", "dependencies", "tests", "benchmarks", "ci",
                   "docs", "coverage", "commits", "issues"}

LookupDone == pc \notin {"construct", "get_repo"}
              /\ (err # None => err[1].stage \notin {"format", "access"})

AnalysisDone == pc \in {"make_roaster", "quick_roast", "roast", "chat", "display",
                        "backend_error", "uncaught", "exit"}
                /\ (err # None => err[1].stage = "backend")

\* the default a field holds when its probe failed
DefaultHeld(op) ==
    CASE op = "readme" -> data.readme = None
      [] op = "languages" -> data.languages = {}
      [] op = "dependencies" -> data.dependencies = NoDependencies
      [] op = "tests" -> data.has_tests = FALSE
      [] op = "benchmarks" -> data.has_benchmarks = FALSE
      [] op = "ci" -> data.has_ci = FALSE
      [] op = "docs" -> data.has_docs = FALSE
      [] op = "coverage" -> data.test_coverage = Some(0)
      [] op = "commits" -> data.commit_frequency = NoCommits
      [] op = "issues" -> data.issue_stats = NoIssues
      [] OTHER -> TRUE

\* C1: once the repository lookup has succeeded, no exception leaves
\* analyze whatever later platform queries fail, and the field of a probe
\* whose queries all failed holds its default value.
AnalyzeAlwaysReturnsReport ==
    LookupDone =>
        /\ (err # None => err[1].stage # "analysis")
        /\ (last.fault = "all" => DefaultHeld(last.op))

\* C2: with --quick, after a successful analysis, no backend is
\* initialised, contacted or required: the roaster holds no client, no
\* backend query is sent, no error arises, and the run ends with status 0
\* and the report of the scoring heuristic, for every --model and --api-key.
QuickNeedsNoBackend ==
    (quick /\ AnalysisDone /\ pc # "make_roaster") =>
        /\ roaster = NoRoaster
        /\ "backend" \notin ProbesRun
        /\ err = None
        /\ (pc = "exit" =>
              exit_code = Some(0) /\ roast_text = Some(quick_roast(data)))

\* C3: a format or access error ends the run before any evidence probe has
\* sent a query, a backend error arises only after every evidence probe has
\* run, and a run that ends on any of the three exits with a nonzero status.
ErrorsAbortInOrder ==
    err # None =>
        /\ (err[1].stage \in {"format", "access"} =>
              ProbesRun \cap (EvidenceProbes \cup {"languages", "backend"}) = {})
        /\ (err[1].stage = "backend" =>
              EvidenceProbes \subseteq ProbesRun /\ AnalysisDone)
        /\ (pc = "exit" /\ err[1].stage \in {"format", "access", "backend"} =>
              exit_code # None /\ exit_code # Some(0))

\* a run that met a backend error after the analysis and has exited
BackendErrorExit ==
    pc = "exit" /\ err # None /\ err[1].stage = "backend"
    /\ ~quick /\ exit_code = Some(1)

\* C10: on the non-quick path a run that ends on a backend failure (network
\* error, missing credential, unavailable model) ends on a RuntimeError
\* that carries the backend's message and, for the local backend, the hint.
BackendFailuresAreRuntimeErrors ==
    (pc = "exit" /\ ~quick /\ last.op \in {"make_roaster", "roast"}
       /\ last.fault \in {"network", "missing_credential", "model_unavailable"})
    => /\ err # None
       /\ err[1].type = "RuntimeError"
       /\ err[1].message = last.fault
       /\ (~StartsWith(model, Gpt) => err[1].hint)

----------------------------------------------------------------------------
(* Properties of the scoring heuristic (SpecQuick) *)

HasClaim(category) ==
    \E i \in DOMAIN data.readme_claims :
        data.readme_claims[i].category = category

PerfMismatch == HasClaim("performance") /\ ~data.has_benchmarks
DepMismatch == HasClaim("lightweight") /\ data.dependencies.count > 50
ProdMismatch == HasClaim("production") /\ ~data.has_tests

Entries(out, evidence) ==
    Cardinality({i \in DOMAIN out.roasts : out.roasts[i].evidence = evidence})

Bit(b) == IF b THEN 1 ELSE 0

\* C4: each rule contributes at most one entry and one deduction however
\* many claims of its category exist; with at least one mismatch the score
\* is 100 - 20[performance] - 15[lightweight] - 25[production].
EachRuleAppliedOnce ==
    (pc = "display" /\ quick) =>
        LET out == roast_text[1]
        IN  /\ Entries(out, "No benchmarks found") = Bit(PerfMismatch)
            /\ Entries(out, "dependencies") = Bit(DepMismatch)
            /\ Entries(out, "No tests detected") = Bit(ProdMismatch)
            /\ Len(out.roasts) =
                 Bit(PerfMismatch) + Bit(DepMismatch) + Bit(ProdMismatch)
            /\ (PerfMismatch =>
                  out.roasts[1].claim = ClaimsOf(data, "performance")[1].text)
            /\ (PerfMismatch \/ DepMismatch \/ ProdMismatch =>
                  out.score = 100 - 20 * Bit(PerfMismatch)
                                  - 15 * Bit(DepMismatch)
                                  - 25 * Bit(ProdMismatch))

\* two performance claims and a lightweight claim, both mismatched: 65
TwoRulesGive65 ==
    /\ pc = "display" /\ quick
    /\ Len(ClaimsOf(data, "performance")) >= 2
    /\ PerfMismatch /\ DepMismatch /\ ~ProdMismatch
    /\ roast_text[1].score = 65
    /\ roast_text[1].verdict = "Marketing Spin"

\* C5: a report without any mismatch gets score 95 (not 100), the verdict
\* "Honest AF", the all-clear line and no mismatch entry.
NoMismatchScores95 ==
    (pc = "display" /\ quick
       /\ ~PerfMismatch /\ ~DepMismatch /\ ~ProdMismatch) =>
        /\ roast_text[1].score = 95
        /\ roast_text[1].verdict = "Honest AF"
        /\ roast_text[1].all_clear
        /\ roast_text[1].roasts = <<>>

\* claims of all three categories, each backed by its evidence
HonestReport ==
    /\ pc = "display" /\ quick
    /\ HasClaim("performance") /\ HasClaim("lightweight")
    /\ HasClaim("production")
    /\ ~PerfMismatch /\ ~DepMismatch /\ ~ProdMismatch
    /\ roast_text[1].all_clear

\* C6: the verdict line is determined by the score line: 90 and above
\* "Honest AF", 70..89 "Mostly True", 50..69 "Marketing Spin", 30..49
\* "Creative Liberties", below 30 "README Fiction".
VerdictFollowsScore ==
    (pc = "display" /\ quick) =>
        LET sc == roast_text[1].score
            v == roast_text[1].verdict
        IN  /\ (sc >= 90 <=> v = "Honest AF")
            /\ (sc \in 70..89 <=> v = "Mostly True")
            /\ (sc \in 50..69 <=> v = "Marketing Spin")
            /\ (sc \in 30..49 <=> v = "Creative Liberties")
            /\ (sc < 30 <=> v = "README Fiction")

\* a score inside the band 70..89, below the mutated threshold
ScoreOf75 ==
    pc = "display" /\ quick /\ roast_text[1].score = 75
    /\ roast_text[1].verdict = "Mostly True"

----------------------------------------------------------------------------
(* Properties of the claim extractor (SpecClaims) *)

Extracted == pc = "make_roaster"

\* C7: a text with exactly one performance-hype phrase and no phrase of
\* another category yields exactly one record, of category performance,
\* with count 1.
OnePerformancePhraseOneRecord ==
    (/\ Extracted
     /\ platform.readme # None
     /\ CountPhrases(platform.readme[1], {"performance"}) = 1
     /\ CountPhrases(platform.readme[1],
                     {"simplicity", "production", "lightweight",
                      "modern", "comprehensive"}) = 0)
    => /\ Len(data.readme_claims) = 1
       /\ data.readme_claims[1].category = "performance"
       /\ data.readme_claims[1].count = 1

\* every pattern with its category, in declaration order
RECURSIVE PatternsFrom(_)
PatternsFrom(c) ==
    IF c > Len(patterns) THEN <<>>
    ELSE [j \in DOMAIN patterns[c].pattern_list |->
            [category |-> patterns[c].category,
             pattern |-> patterns[c].pattern_list[j]]]
         \o PatternsFrom(c + 1)

CategoryOrder == <<"performance", "simplicity", "production", "lightweight",
                   "modern", "comprehensive">>

CategoryRank(category) ==
    CHOOSE r \in DOMAIN CategoryOrder : CategoryOrder[r] = category

\* C8: one record per pattern that matches and none for the others, in
\* declaration order of categories then patterns; a record holds the first
\* match of its pattern and the number of its matches; no README, an empty
\* README or a text without match gives no record.
OneRecordPerMatchingPattern ==
    Extracted =>
        IF data.readme = None \/ data.readme[1] = <<>>
        THEN data.readme_claims = <<>>
        ELSE LET text == Lower(data.readme[1])
                 hits == SelectSeq(PatternsFrom(1),
                             LAMBDA p : FindAll(p.pattern, text) # <<>>)
                 got == data.readme_claims
             IN  /\ Len(got) = Len(hits)
                 /\ \A i \in DOMAIN got :
                      LET matches == FindAll(hits[i].pattern, text)
                      IN  /\ got[i].category = hits[i].category
                          /\ got[i].text = matches[1]
                          /\ got[i].count = Len(matches)
                          /\ got[i].count >= 1
                 /\ \A i, j \in DOMAIN got :
                      i < j => CategoryRank(got[i].category)
                                 <= CategoryRank(got[j].category)

\* a phrase repeated: two patterns match it, each twice
RepeatedPhraseCounted ==
    /\ Extracted
    /\ Len(data.readme_claims) >= 2
    /\ \A i \in DOMAIN data.readme_claims : data.readme_claims[i].count = 2

----------------------------------------------------------------------------
(* Properties of the repository reference parser (SpecParse) *)

NamePart(s) == s # <<>> /\ \A i \in DOMAIN s : s[i] # "/"

\* owner/repo
IsOwnerRepo(u) ==
    /\ ~Contains(GithubCom, u)
    /\ \E i \in DOMAIN u :
         /\ u[i] = "/"
         /\ NamePart(SubSeq(u, 1, i - 1))
         /\ NamePart(SubSeq(u, i + 1, Len(u)))

\* github.com/owner/repo, possibly with a longer path
IsHostPath(u) ==
    /\ StartsWith(u, GithubCom \o <<"/">>)
    /\ LET parts == SplitSlash(SubSeq(u, Len(GithubCom) + 2, Len(u)))
       IN  Len(parts) >= 2 /\ parts[1] # <<>> /\ parts[2] # <<>>

Schemes == {<<"h","t","t","p","s",":","/","/">>, <<"h","t","t","p",":","/","/">>}

\* scheme://github.com/owner/repo
IsFullUrl(u) ==
    \E sch \in Schemes :
        StartsWith(u, sch) /\ IsHostPath(SubSeq(u, Len(sch) + 1, Len(u)))

\* the pair a reference of one of the three forms names
NamedPair(u) ==
    LET parts == SplitSlash(u)
        k == IF IsOwnerRepo(u) THEN 1 ELSE IF IsHostPath(u) THEN 2 ELSE 4
    IN  <<parts[k], parts[k + 1]>>

\* C9: a reference is accepted exactly when it has one of the three forms
\* (surrounding whitespace and trailing slashes aside), and then the pair
\* returned is its owner and name, both non-empty; every other reference
\* fails with ValueError.
ParseAcceptsThreeForms ==
    pc # "construct" =>
        LET u == RStripSlash(Strip(repo_url))
        IN  IF IsOwnerRepo(u) \/ IsHostPath(u) \/ IsFullUrl(u)
            THEN /\ ident = Some(NamedPair(u))
                 /\ ident[1][1] # <<>> /\ ident[1][2] # <<>>
                 /\ err = None
            ELSE /\ ident = None
                 /\ err = Some([type |-> "ValueError", stage |-> "format"])

----------------------------------------------------------------------------
(* Properties of the order of the steps (Spec) *)

\* the probes of the queries sent to the hosting platform after the
\* repository lookup, in order, a run of queries of one probe counted once
RECURSIVE StepsFrom(_)
StepsFrom(i) ==
    IF i > Len(calls) THEN <<>>
    ELSE IF calls[i][1] \in {"lookup", "backend"} THEN StepsFrom(i + 1)
    ELSE IF i > 1 /\ calls[i - 1][1] = calls[i][1] THEN StepsFrom(i + 1)
    ELSE <<calls[i][1]>> \o StepsFrom(i + 1)

PlatformSteps == StepsFrom(1)

Pipeline == <<"readme", "dependencies", "tests", "benchmarks", "ci", "docs",
              "commits", "issues">>

ChatSent == \E i \in DOMAIN calls : calls[i] = Call("backend", "chat", "")

\* C11: a successful non-quick run queries the platform for the README, the
\* dependencies, the tests, the benchmarks, the CI, the docs, the commit
\* statistics and the issue statistics in this order with no other platform
\* query in between, then extracts the claims, then composes the prompt,
\* and only then calls the backend.
PipelineInOrder ==
    /\ (ChatSent => prompt # None)
    /\ (prompt # None => AnalysisDone)
    /\ (AnalysisDone => PlatformSteps = Pipeline)
    /\ (pc = "exit" /\ ~quick /\ exit_code = Some(0) =>
          ChatSent /\ PlatformSteps = Pipeline)

\* the sub-probe a step of analyze runs: the coverage estimate runs
\* _check_tests (analyzer.py line 281)
ProbeOf(step) == IF step = "coverage" THEN "tests" ELSE step

\* the argument of the query a sub-probe starts with
FirstQuery(probe) ==
    CASE probe = "dependencies" -> "package.json"
      [] probe = "ci" -> ".github/workflows"
      [] probe = "issues" -> "closed"
      [] OTHER -> ""

\* how often a sub-probe has been started
Runs(probe) ==
    Cardinality({i \in DOMAIN calls :
                   /\ ProbeOf(calls[i][1]) = probe
                   /\ calls[i][3] = FirstQuery(probe)})

\* C12: within one call of analyze no evidence sub-probe (README,
\* dependencies, tests, benchmarks, CI, docs, commit frequency, issue
\* stats) is started a second time, whether it failed or not, and once
\* analyze has returned each has been started exactly once.
ProbesRunOnce ==
    \A k \in DOMAIN Pipeline :
        /\ Runs(Pipeline[k]) <= 1
        /\ (AnalysisDone => Runs(Pipeline[k]) = 1)

----------------------------------------------------------------------------
(* Properties of the dependency probe (SpecDeps) *)

DepsProbed == pc = "tests" /\ last.op = "dependencies"

\* the manifest files fetched, in order
Fetched ==
    LET q == SelectSeq(calls, LAMBDA c : c[1] = "dependencies")
    IN  [k \in DOMAIN q |-> q[k][3]]

\* the first of the seven manifests that the repository holds, 0 if none
FirstFound ==
    IF \E i \in DOMAIN dep_files : platform.manifests[i].kind # "absent"
    THEN CHOOSE i \in DOMAIN dep_files :
           /\ platform.manifests[i].kind # "absent"
           /\ \A j \in 1..(i - 1) : platform.manifests[j].kind = "absent"
    ELSE 0

\* C13: when no fetch fails, _get_dependencies fetches the manifests in the
\* order of dep_files up to the first one the repository holds and no
\* further, reports the kind of that manifest as the type also when it
\* cannot be parsed, and reports no type iff the repository holds none.
StopsAtFirstManifest ==
    (DepsProbed /\ last.fault = "none") =>
        LET n == IF FirstFound = 0 THEN Len(dep_files) ELSE FirstFound
        IN  /\ Fetched = [k \in 1..n |-> dep_files[k].filename]
            /\ data.dependencies.type =
                 IF FirstFound = 0 THEN "None"
                 ELSE dep_files[FirstFound].dep_type

\* C14: on every path, failed fetches and parse failures included, the
\* record _get_dependencies returns has count = len(list) when the list is
\* not empty, and count 0 with an empty list when the type is cargo, go,
\* maven, gradle or bundler or when no manifest was found.
CountMatchesList ==
    DepsProbed =>
        LET d == data.dependencies
        IN  /\ (d.list # <<>> => d.count = Len(d.list))
            /\ (d.type \in {"None", "cargo", "go", "maven", "gradle", "bundler"}
                  => d.count = 0 /\ d.list = <<>>)

\* requirements.txt read after a package.json that could not be parsed, and
\* one of its lines dropped
PipAfterParseFailure ==
    /\ DepsProbed
    /\ platform.manifests[1].kind = "garbage"
    /\ data.dependencies.type = "pip"
    /\ data.dependencies.count = 1
    /\ Len(platform.manifests[2].lines) = 2

----------------------------------------------------------------------------
(* Properties of the issue statistics (SpecIssues) *)

IssuesProbed == pc = "extract_claims" /\ last.op = "issues"

\* C15: the record _get_issue_stats returns has total = open + closed, has
\* close rate 0 when the total is 0, and is all-zero when the issue query
\* failed; when the query answered it carries the counts of the platform.
IssueStatsConsistent ==
    IssuesProbed =>
        LET st == data.issue_stats
        IN  /\ st.total = st.open + st.closed
            /\ (st.total = 0 => st.close_rate = 0)
            /\ (last.fault = "all" => st = NoIssues)
            /\ (last.fault = "none" =>
                  st.open = platform.open_issues
                  /\ st.closed = platform.closed_issues)

\* open issues only: the query answered and the close rate is 0 of a
\* nonzero total
OpenIssuesOnly ==
    /\ IssuesProbed
    /\ last.fault = "none"
    /\ data.issue_stats.open = 3
    /\ data.issue_stats.total = 3
    /\ data.issue_stats.close_rate = 0

----------------------------------------------------------------------------
(* Properties of the prompt composer (SpecPrompt) *)

\* the whole days between the update and the creation timestamps
AgeDays == Days(data.updated_at - data.created_at)

\* the age slot reads "<n><unit>", n being d itself for days and the
\* truncated quotient of d by 30 or 365 for months and years
AgeReads(d, age, days_unit) ==
    /\ Len(age) = 2
    /\ IF d < 30 THEN age[1] = d /\ age[2] = days_unit
       ELSE IF d < 365
       THEN /\ age[2] = " months old"
            /\ 30 * age[1] <= d /\ d < 30 * (age[1] + 1)
       ELSE /\ age[2] = " years old"
            /\ 365 * age[1] <= d /\ d < 365 * (age[1] + 1)

\* C16 as stated: the age is rendered as "d days old" when d < 30, as
\* "(d div 30) months old" when 30 <= d < 365 and as "(d div 365) years old"
\* when d >= 365, the divisions truncating.
AgeBuckets ==
    prompt # None => AgeReads(AgeDays, prompt[1].age, " days old")

\* C16 as amended: the age is rendered as "d days old (fresh!)" when
\* d < 30, as "(d div 30) months old" when 30 <= d < 365 and as
\* "(d div 365) years old" when d >= 365, the divisions truncating.
AgeBucketsFresh ==
    prompt # None => AgeReads(AgeDays, prompt[1].age, " days old (fresh!)")

\* a gap of 400 days rendered as "1 years old"
FourHundredDays ==
    prompt # None /\ AgeDays = 400 /\ prompt[1].age = <<1, " years old">>

VerifiedCategories ==
    <<"performance", "lightweight", "production", "simplicity">>

\* the text a line of the claims-to-verify block starts with
LineStart(category) ==
    CASE category = "performance" -> "- Performance claims: Has benchmarks = "
      [] category = "lightweight" -> "- Lightweight claims: "
      [] category = "production" -> "- Production ready claims: Tests = "
      [] category = "simplicity" -> "- Simplicity claims: Dependency count = "

\* C17: the claims-to-verify block holds one line for each of performance,
\* lightweight, production, simplicity that occurs anywhere in the claim
\* list (also after the tenth claim), in this order, no other line, and
\* the placeholder line alone when none of the four occurs.
VerifyBlockFollowsCategories ==
    prompt # None =>
        LET block == prompt[1].specific_claims
            present == SelectSeq(VerifiedCategories,
                         LAMBDA c : \E k \in DOMAIN data.readme_claims :
                                       data.readme_claims[k].category = c)
        IN  IF present = <<>>
            THEN block = << <<"- No specific claims to verify">> >>
            ELSE /\ Len(block) = Len(present)
                 /\ \A k \in DOMAIN block : block[k][1] = LineStart(present[k])

\* a listing filled by ten other claims, and two lines for the lightweight
\* and the performance claim that follow them
LinesForUnlistedClaims ==
    /\ prompt # None
    /\ Len(data.readme_claims) = 12
    /\ Len(prompt[1].claims) = 10
    /\ data.readme_claims[11].category = "lightweight"
    /\ data.readme_claims[12].category = "performance"
    /\ Len(prompt[1].specific_claims) = 2
    /\ prompt[1].specific_claims[1][1] = LineStart("performance")

----------------------------------------------------------------------------
(* Properties of the report after analyze has returned (SpecRoast) *)

\* C18: once analyze has returned, no step of the run (the construction of
\* the roaster, quick_roast, build_analysis_prompt, the backend call, the
\* display, the error exits) changes any field of the report, so the roast
\* of the scoring heuristic and the composed prompt are what the heuristic
\* and the composer give on the report as it is at any later moment.
ReportNeverModified ==
    /\ [][AnalysisDone => data' = data]_vars
    /\ [](quick /\ roast_text # None => roast_text = Some(quick_roast(data)))
    /\ [](prompt # None =>
            \E spicy \in BOOLEAN, lag \in ClockLags :
               prompt = Some(build_analysis_prompt(data, spicy,
                                                   data.pushed_at + lag)))

\* a quick run that has scored a report with a claim and has exited
ScoredAndExited ==
    /\ pc = "exit"
    /\ quick
    /\ exit_code = Some(0)
    /\ roast_text # None
    /\ roast_text[1].score = 75
    /\ data.readme_claims # <<>>

----------------------------------------------------------------------------
(* Properties of the coverage estimate (Spec) *)

\* C19: in the report analyze returns, test_coverage is 0 exactly when
\* has_tests is false and None exactly when has_tests is true, whatever
\* platform queries failed during the analysis.
CoverageAgreesWithTests ==
    AnalysisDone =>
        /\ (data.test_coverage = Some(0) <=> ~data.has_tests)
        /\ (data.test_coverage = None <=> data.has_tests)

----------------------------------------------------------------------------
(* Properties of the scores of the scoring heuristic (SpecQuick) *)

QuickScores == {95, 85, 80, 75, 65, 60, 55, 40}

\* C20: the score quick_roast prints is one of 95, 85, 80, 75, 65, 60,
\* 55, 40, the verdict is never "README Fiction", and it is "Honest AF"
\* if and only if the report has no mismatch.
ScoresAreTheEight ==
    roast_text # None =>
        /\ roast_text[1].score \in QuickScores
        /\ roast_text[1].verdict # "README Fiction"
        /\ (roast_text[1].verdict = "Honest AF"
              <=> ~(PerfMismatch \/ DepMismatch \/ ProdMismatch))

\* the three mismatches together: the lowest score
AllThreeGive40 ==
    /\ roast_text # None
    /\ PerfMismatch /\ DepMismatch /\ ProdMismatch
    /\ roast_text[1].score = 40
    /\ roast_text[1].verdict = "Creative Liberties"

====
